---------------------------- MODULE Spec2Model ----------------------------
(***************************************************************************)
(* Model of src/app.ts: an Express application that loads .env, resolves   *)
(* its port from process.env.PORT, registers GET "/" and listens.          *)
(*                                                                         *)
(* Two operating-system processes run the same program from the same       *)
(* working directory (they share the .env file and the host's sockets,     *)
(* each has its own process environment).  The calls app.ts makes into     *)
(* dotenv, Express and Node's net module are modelled by what those calls  *)
(* do to the state app.ts can observe: process.env, the route table, the   *)
(* host's listening sockets, stdout and the process's exit code.           *)
(*                                                                         *)
(* JavaScript strings that the program inspects (PORT and the text of the  *)
(* port in the startup message) are sequences of one-character strings, so *)
(* that parsing and formatting are computed and not assumed.               *)
(***************************************************************************)
EXTENDS Integers, Sequences, FiniteSets

\* ------------------------------------------------------------------ bounds

\* Requests one process answers in a run.
MaxRequests == 2

\* The two processes started from the repository ("npm start" twice).
Instances == {1, 2}

\* ------------------------------------------------------------ text helpers

Digits == <<"0", "1", "2", "3", "4", "5", "6", "7", "8", "9">>

IsDigit(c) == \E k \in 1..10 : Digits[k] = c

DigitVal(c) == (CHOOSE k \in 1..10 : Digits[k] = c) - 1

AllDigits(s) == \A k \in 1..Len(s) : IsDigit(s[k])

RECURSIVE ParseDec(_)
\* The value of a string of decimal digits (JavaScript's Number on such a string).
ParseDec(s) ==
  IF Len(s) = 0 THEN 0
  ELSE ParseDec(SubSeq(s, 1, Len(s) - 1)) * 10 + DigitVal(s[Len(s)])

RECURSIVE ToText(_)
\* The decimal text of a natural number (a template literal's `${n}`).
ToText(n) ==
  IF n < 10 THEN <<Digits[n + 1]>>
  ELSE ToText(n \div 10) \o <<Digits[(n % 10) + 1]>>

\* -------------------------------------------------------- JavaScript values

Undefined == [type |-> "undefined", num |-> 0, str |-> <<>>]

JsNumber(n) == [type |-> "number", num |-> n, str |-> <<>>]

JsString(s) == [type |-> "string", num |-> 0, str |-> s]

\* JavaScript truthiness, for the operands app.ts gives to ||.
Truthy(v) ==
  CASE v.type = "undefined" -> FALSE
    [] v.type = "string"    -> Len(v.str) > 0
    [] v.type = "number"    -> v.num # 0

\* `${v}` for a number or a string.
TemplateText(v) ==
  CASE v.type = "number"    -> ToText(v.num)
    [] v.type = "string"    -> v.str
    [] v.type = "undefined" -> <<"u", "n", "d", "e", "f", "i", "n", "e", "d">>

\* ------------------------------------------------------- the inputs of a run

\* Values PORT takes in the process environment or in .env.  The texts are
\* over digits and letters: empty, a usual port, the default, a text that is
\* no number, zero, and a number above 65535.
PortTexts ==
  { <<>>,
    <<"4", "0", "0", "0">>,
    <<"3", "3", "0", "0">>,
    <<"a", "b", "c">>,
    <<"0">>,
    <<"7", "0", "0", "0", "0">> }

\* process.env.PORT: absent, or a string.
EnvAbsent == [set |-> FALSE, val |-> <<>>]

EnvValues == {EnvAbsent} \cup { [set |-> TRUE, val |-> t] : t \in PortTexts }

\* The .env file of the working directory: missing, without a PORT line, or
\* with PORT=<text>.
DotenvMissing == [exists |-> FALSE, hasPort |-> FALSE, val |-> <<>>]

DotenvFiles ==
  {DotenvMissing, [exists |-> TRUE, hasPort |-> FALSE, val |-> <<>>]}
    \cup { [exists |-> TRUE, hasPort |-> TRUE, val |-> t] : t \in PortTexts }

Methods == {"GET", "HEAD", "POST", "OPTIONS"}

Paths == {"/", "/foo"}

Requests == [method : Methods, path : Paths]

NoRequest == [method |-> "", path |-> ""]

NoResponse == [status |-> 0, body |-> <<>>, handler |-> FALSE]

\* -------------------------------------------------------------------- state

VARIABLES
  dotenvFile,  \* the .env file of the working directory
  env,         \* env[i]: process.env.PORT of process i
  pc,          \* pc[i]: the statement of app.ts process i is at
  port,        \* port[i]: the const port of app.ts
  routes,      \* routes[i]: the routes registered on app
  listenArg,   \* listenArg[i]: the first argument app.listen was called with
  bound,       \* the host's listening sockets: [addr, owner]
  log,         \* log[i]: the lines process i wrote with console.log
  exitCode,    \* exitCode[i]: <<>> while running, <<code>> once exited
  events,      \* events[i]: the statements process i has run, in order
  lastReq,     \* lastReq[i]: the last request process i answered
  resp,        \* resp[i]: its response
  handled      \* handled[i]: requests answered so far

vars ==
  <<dotenvFile, env, pc, port, routes, listenArg, bound, log, exitCode,
    events, lastReq, resp, handled>>


\* --------------------------------------------------------- dotenv.config()

\* Variant: the configuration loader throws when the file is missing.
DotenvConfigThrows_onMissing(f) == ~f.exists

\* dotenv.config() reports a missing file in its return value, which app.ts
\* drops: it does not throw.
DotenvConfigThrows(f) == FALSE

\* dotenv writes a parsed key into process.env only when the key is not
\* already there (override is off by default).
DotenvPopulate(e, f) ==
  IF f.exists /\ f.hasPort /\ ~e.set
    THEN [set |-> TRUE, val |-> f.val]
    ELSE e

\* process.env.PORT as a JavaScript value.
EnvRead(e) == IF e.set THEN JsString(e.val) ELSE Undefined

\* ------------------------------------------------------------------- port

\* Variant: the default the README's listing of app.ts gives.
DefaultPort_readme == 3000

DefaultPort == 3300

\* Variant: process.env.PORT ?? 3300 (an empty PORT is kept).
PortExpr_nullish(v) == IF v.type # "undefined" THEN v ELSE JsNumber(3300)

\* Variant: const port = 3300 (the environment is not consulted).
PortExpr_ignoreEnv(v) == JsNumber(3300)

\* process.env.PORT || 3300
PortExpr(v) == IF Truthy(v) THEN v ELSE JsNumber(DefaultPort)

\* --------------------------------------------------------------- app.get

GreeterRoute == [method |-> "GET", path |-> "/"]

GreetingBody == <<"Hello World! 3">>

\* Variant: the README's handler, res.send('Hello World!').
GreetingHandler_readme(i) ==
  [status |-> 200, body |-> <<"Hello World!">>, handler |-> TRUE]

\* Variant: the number in the body counts the requests answered.
GreetingHandler_counting(i) ==
  [status |-> 200,
   body |-> <<"Hello World! " , ToText(handled[i] + 1)>>,
   handler |-> TRUE]

\* (req, res) => { res.send("Hello World! 3") }: the status stays 200.
GreetingHandler(i) == [status |-> 200, body |-> GreetingBody, handler |-> TRUE]

\* Variant: the handler is registered for every method (app.all).
RouteHandles_anyMethod(R, rt, req) == rt.path = req.path

\* A route answers its own method, and a GET route answers HEAD when no HEAD
\* route is registered for the path.
RouteHandles(R, rt, req) ==
  /\ rt.path = req.path
  /\ \/ rt.method = req.method
     \/ /\ req.method = "HEAD"
        /\ rt.method = "GET"
        /\ [method |-> "HEAD", path |-> req.path] \notin R

\* Express's answer to a request given the registered routes R: the matching
\* route's handler; for OPTIONS on a path that has routes, 200 with the
\* allowed methods; otherwise the default 404.  A HEAD response carries no body.
Dispatch(i, R, req) ==
  IF \E rt \in R : RouteHandles(R, rt, req)
    THEN IF req.method = "HEAD"
           THEN [GreetingHandler(i) EXCEPT !.body = <<>>]
           ELSE GreetingHandler(i)
    ELSE IF req.method = "OPTIONS" /\ \E rt \in R : rt.path = req.path
           THEN [status |-> 200, body |-> <<"GET,HEAD">>, handler |-> FALSE]
           ELSE [status |-> 404, body |-> <<"Cannot", req.method, req.path>>,
                 handler |-> FALSE]

\* ------------------------------------------------------------ app.listen

\* Ports the host hands out for a listen on port 0.
EphemeralPorts == {49152, 49153}

TcpAddr(n) == [kind |-> "tcp", port |-> n, path |-> <<>>]

PipeAddr(s) == [kind |-> "pipe", port |-> 0, path |-> s]

InvalidAddr == [kind |-> "invalid", port |-> 0, path |-> <<>>]

\* Number(s) >= 0 for a text over digits and letters: a text with a letter
\* is NaN, the empty text is 0.
IsNonNegativeNumber(s) == AllDigits(s)

\* listen's first argument is a pipe name when it is a string that is not a
\* non-negative number.
IsPipeName(v) == v.type = "string" /\ ~IsNonNegativeNumber(v.str)

\* validatePort: a number, or a non-blank string of one, in 0..65535.
ValidPort(v) ==
  CASE v.type = "number"    -> v.num \in 0..65535
    [] v.type = "string"    -> Len(v.str) > 0 /\ ParseDec(v.str) \in 0..65535
    [] v.type = "undefined" -> TRUE

PortNumber(v) ==
  CASE v.type = "number"    -> v.num
    [] v.type = "string"    -> ParseDec(v.str)
    [] v.type = "undefined" -> 0

\* What app.listen(v, cb) asks the host for.
ListenTarget(v) ==
  IF IsPipeName(v) THEN PipeAddr(v.str)
  ELSE IF ValidPort(v) THEN TcpAddr(PortNumber(v))
  ELSE InvalidAddr

\* Variant: the socket is opened with address reuse, so a held address
\* does not refuse a second bind.
InUse_reuse(a) == FALSE

InUse(a) == \E b \in bound : b.addr = a

\* The addresses a bind for target t may end on: t itself when free; for
\* TCP port 0, any free ephemeral port.
BindChoices(t) ==
  IF t.kind = "tcp" /\ t.port = 0
    THEN { TcpAddr(p) : p \in { q \in EphemeralPorts : ~InUse(TcpAddr(q)) } }
    ELSE IF t.kind = "invalid" \/ InUse(t) THEN {} ELSE {t}

\* Variant: the message names the default port whatever was listened on.
StartupMessage_fixed(v) ==
  [text |-> "Server running on http://localhost:", port |-> ToText(3300)]

\* `Server running on http://localhost:${port}`
StartupMessage(v) ==
  [text |-> "Server running on http://localhost:", port |-> TemplateText(v)]

\* ---------------------------------------------------------------- actions

Init ==
  /\ dotenvFile \in DotenvFiles
  /\ env \in [Instances -> EnvValues]
  /\ pc = [i \in Instances |-> "start"]
  /\ port = [i \in Instances |-> Undefined]
  /\ routes = [i \in Instances |-> {}]
  /\ listenArg = [i \in Instances |-> Undefined]
  /\ bound = {}
  /\ log = [i \in Instances |-> <<>>]
  /\ exitCode = [i \in Instances |-> <<>>]
  /\ events = [i \in Instances |-> <<>>]
  /\ lastReq = [i \in Instances |-> NoRequest]
  /\ resp = [i \in Instances |-> NoResponse]
  /\ handled = [i \in Instances |-> 0]

\* An uncaught error ends the process with exit code 1; the host closes its
\* sockets.
Crash(i, ev) ==
  /\ pc' = [pc EXCEPT ![i] = "crashed"]
  /\ exitCode' = [exitCode EXCEPT ![i] = <<1>>]
  /\ events' = [events EXCEPT ![i] = Append(@, ev)]
  /\ bound' = { b \in bound : b.owner # i }

\* dotenv.config()
LoadEnv(i) ==
  /\ pc[i] = "start"
  /\ IF DotenvConfigThrows(dotenvFile)
       THEN /\ Crash(i, "dotenv.throw")
            /\ UNCHANGED env
       ELSE /\ env' = [env EXCEPT ![i] = DotenvPopulate(@, dotenvFile)]
            /\ pc' = [pc EXCEPT ![i] = "loaded"]
            /\ events' = [events EXCEPT ![i] = Append(@, "dotenv.config")]
            /\ UNCHANGED <<exitCode, bound>>
  /\ UNCHANGED <<dotenvFile, port, routes, listenArg, log, lastReq, resp, handled>>

\* const app = express()
CreateApp(i) ==
  /\ pc[i] = "loaded"
  /\ routes' = [routes EXCEPT ![i] = {}]
  /\ pc' = [pc EXCEPT ![i] = "created"]
  /\ events' = [events EXCEPT ![i] = Append(@, "express")]
  /\ UNCHANGED <<dotenvFile, env, port, listenArg, bound, log, exitCode,
                 lastReq, resp, handled>>

\* const port = process.env.PORT || 3300
ResolvePort(i) ==
  /\ pc[i] = "created"
  /\ port' = [port EXCEPT ![i] = PortExpr(EnvRead(env[i]))]
  /\ pc' = [pc EXCEPT ![i] = "resolved"]
  /\ events' = [events EXCEPT ![i] = Append(@, "read PORT")]
  /\ UNCHANGED <<dotenvFile, env, routes, listenArg, bound, log, exitCode,
                 lastReq, resp, handled>>

\* app.get("/", handler)
RegisterRoute(i) ==
  /\ pc[i] = "resolved"
  /\ routes' = [routes EXCEPT ![i] = @ \cup {GreeterRoute}]
  /\ pc' = [pc EXCEPT ![i] = "routed"]
  /\ events' = [events EXCEPT ![i] = Append(@, "app.get")]
  /\ UNCHANGED <<dotenvFile, env, port, listenArg, bound, log, exitCode,
                 lastReq, resp, handled>>

\* app.listen(port, cb): the bind.  An invalid port throws, an address in
\* use is an 'error' event nobody listens for: both end the process.
Listen(i) ==
  /\ pc[i] = "routed"
  /\ listenArg' = [listenArg EXCEPT ![i] = port[i]]
  /\ LET choices == BindChoices(ListenTarget(port[i])) IN
       IF choices = {}
         THEN Crash(i, "listen.error")
         ELSE /\ \E a \in choices : bound' = bound \cup {[addr |-> a, owner |-> i]}
              /\ pc' = [pc EXCEPT ![i] = "bound"]
              /\ events' = [events EXCEPT ![i] = Append(@, "bind")]
              /\ UNCHANGED exitCode
  /\ UNCHANGED <<dotenvFile, env, port, routes, log, lastReq, resp, handled>>

\* () => { console.log(...) }: the 'listening' callback.
ListeningCallback(i) ==
  /\ pc[i] = "bound"
  /\ log' = [log EXCEPT ![i] = Append(@, StartupMessage(port[i]))]
  /\ pc' = [pc EXCEPT ![i] = "listening"]
  /\ events' = [events EXCEPT ![i] = Append(@, "console.log")]
  /\ UNCHANGED <<dotenvFile, env, port, routes, listenArg, bound, exitCode,
                 lastReq, resp, handled>>

\* One request arriving at a listening process and answered by the app.
HandleRequest(i, req) ==
  /\ pc[i] = "listening"
  /\ handled[i] < MaxRequests
  /\ lastReq' = [lastReq EXCEPT ![i] = req]
  /\ resp' = [resp EXCEPT ![i] = Dispatch(i, routes[i], req)]
  /\ handled' = [handled EXCEPT ![i] = @ + 1]
  /\ UNCHANGED <<dotenvFile, env, pc, port, routes, listenArg, bound, log,
                 exitCode, events>>

Next ==
  \E i \in Instances :
    \/ LoadEnv(i)
    \/ CreateApp(i)
    \/ ResolvePort(i)
    \/ RegisterRoute(i)
    \/ Listen(i)
    \/ ListeningCallback(i)
    \/ \E req \in Requests : HandleRequest(i, req)

Spec == Init /\ [][Next]_vars


\* ------------------------------------------------------------- properties

\* The addresses process i holds a listening socket on.
Owned(i) == { b.addr : b \in { x \in bound : x.owner = i } }

\* PORT is configured nowhere for process i: not in its environment, and
\* the .env file (if any) has no PORT line.
PortUnset(i) == ~env[i].set /\ ~(dotenvFile.exists /\ dotenvFile.hasPort)

\* Process i has called app.listen.
CalledListen(i) == pc[i] \in {"bound", "listening"} \/
                   (pc[i] = "crashed" /\ listenArg[i] # Undefined)

IsListening(i) == pc[i] \in {"bound", "listening"}

GetRoot == [method |-> "GET", path |-> "/"]

C2_Original ==
  \A i \in Instances :
    (handled[i] > 0 /\ lastReq[i] # GetRoot) =>
      (resp[i].status = 404 /\ ~resp[i].handler)

\* C2 (amended): a request to another path, or to "/" with a method other
\* than GET, HEAD and OPTIONS, gets 404 and does not run the greeting
\* handler; HEAD "/" runs the handler (200, no body) and OPTIONS "/" is
\* answered 200 without running it.
C2_UnmatchedIs404 ==
  \A i \in Instances :
    handled[i] > 0 =>
      /\ (lastReq[i].path # "/" \/ lastReq[i].method \notin {"GET", "HEAD", "OPTIONS"})
           => (resp[i].status = 404 /\ ~resp[i].handler)
      /\ (lastReq[i] = [method |-> "HEAD", path |-> "/"])
           => (resp[i].status = 200 /\ resp[i].handler /\ resp[i].body = <<>>)
      /\ (lastReq[i] = [method |-> "OPTIONS", path |-> "/"])
           => (resp[i].status = 200 /\ ~resp[i].handler)

C2_Witness ==
  \E i, j \in Instances :
    /\ lastReq[i] = [method |-> "POST", path |-> "/"]
    /\ resp[i].status = 404
    /\ lastReq[j] = [method |-> "GET", path |-> "/foo"]
    /\ resp[j].status = 404

PortIsInteger(i) ==
  pc[i] # "start" /\ env[i].set /\ Len(env[i].val) > 0 /\ AllDigits(env[i].val)

\* C4 as stated: with PORT a valid integer string, a listening process
\* listens on exactly that port and on no other.
C4_Original ==
  \A i \in Instances :
    (PortIsInteger(i) /\ IsListening(i)) =>
      Owned(i) = {TcpAddr(ParseDec(env[i].val))}

\* C4 (amended): with PORT a decimal integer string whose value is in
\* 1..65535, app.listen is called with that text and a listening process
\* listens on exactly that TCP port and on no other.
C4_PortInRangeBindsExactly ==
  \A i \in Instances :
    (PortIsInteger(i) /\ ParseDec(env[i].val) \in 1..65535) =>
      /\ CalledListen(i) => listenArg[i] = JsString(env[i].val)
      /\ Owned(i) \subseteq {TcpAddr(ParseDec(env[i].val))}
      /\ IsListening(i) => Owned(i) = {TcpAddr(ParseDec(env[i].val))}

C4_Witness ==
  \E i \in Instances :
    /\ env[i] = [set |-> TRUE, val |-> <<"4", "0", "0", "0">>]
    /\ pc[i] = "listening"
    /\ Owned(i) = {TcpAddr(4000)}
    /\ TcpAddr(3300) \notin Owned(i)

\* C5 as stated: PORT is used only when it is a valid integer; for every
\* other value 3300 is passed to listen.
C5_Original ==
  \A i \in Instances :
    CalledListen(i) =>
      listenArg[i] = IF PortIsInteger(i) THEN JsString(env[i].val)
                     ELSE JsNumber(3300)

\* C5 (amended): PORT is used, as the string it is and without being
\* parsed, whenever it is present and not empty; when it is absent or empty
\* 3300 is passed to listen.
C5_NonEmptyPortIsUsed ==
  \A i \in Instances :
    CalledListen(i) =>
      listenArg[i] = IF env[i].set /\ env[i].val # <<>> THEN JsString(env[i].val)
                     ELSE JsNumber(3300)

C5_Witness ==
  \E i, j \in Instances :
    /\ CalledListen(i) /\ env[i] = [set |-> TRUE, val |-> <<>>]
    /\ listenArg[i] = JsNumber(3300)
    /\ CalledListen(j) /\ env[j] = [set |-> TRUE, val |-> <<"a", "b", "c">>]
    /\ listenArg[j] = JsString(<<"a", "b", "c">>)

\* C6: a process that calls listen for an address another process holds
\* ends with exit code 1 on that step, without a listening socket and
\* without the startup line, and stays so; the holder and its socket are
\* untouched.  No address is ever held by two processes.
C6_SecondInstanceFails ==
  [][ \A i \in Instances :
        /\ ( /\ pc[i] = "routed"
             /\ pc'[i] # "routed"
             /\ \E j \in Instances \ {i} : ListenTarget(port[i]) \in Owned(j) )
           => /\ pc'[i] = "crashed"
              /\ exitCode'[i] = <<1>>
              /\ log'[i] = <<>>
              /\ bound' = bound
              /\ \A j \in Instances \ {i} : pc'[j] = pc[j]
        /\ pc[i] = "crashed"
           => /\ pc'[i] = "crashed"
              /\ log'[i] = log[i]
              /\ exitCode'[i] = <<1>>
              /\ { b \in bound' : b.owner = i } = {}
        /\ \A j \in Instances \ {i} : Owned(i)' \cap Owned(j)' = {}
    ]_vars

C6_Witness ==
  \E i, j \in Instances :
    /\ i # j
    /\ pc[i] = "crashed"
    /\ exitCode[i] = <<1>>
    /\ ListenTarget(listenArg[i]) \in Owned(j)
    /\ pc[j] = "listening"
    /\ handled[j] > 0

\* C7: with no .env file, dotenv.config() leaves the process running and
\* its environment as it was; the port is then the environment's PORT, or
\* 3300, and the process goes on to register the route and call listen: if
\* it ends, it ends in listen.
C7_MissingDotenvNonFatal ==
  /\ [][ \A i \in Instances :
           (~dotenvFile.exists /\ pc[i] = "start" /\ pc'[i] # "start")
             => (pc'[i] = "loaded" /\ env'[i] = env[i] /\ exitCode'[i] = <<>>)
     ]_vars
  /\ [](\A i \in Instances :
          ~dotenvFile.exists =>
            /\ pc[i] = "crashed" =>
                 /\ Len(events[i]) = 5
                 /\ SubSeq(events[i], 1, 4)
                      = <<"dotenv.config", "express", "read PORT", "app.get">>
            /\ pc[i] \notin {"start", "loaded", "created"} =>
                 port[i] = IF env[i].set /\ env[i].val # <<>>
                             THEN JsString(env[i].val)
                             ELSE JsNumber(3300))

C7_Witness ==
  /\ ~dotenvFile.exists
  /\ \E i, j \in Instances :
       /\ pc[i] = "listening" /\ env[i].set /\ Owned(i) = {TcpAddr(4000)}
       /\ pc[j] = "listening" /\ ~env[j].set /\ Owned(j) = {TcpAddr(3300)}

\* C8 as the README states it: with no PORT configured the server runs on
\* port 3000.
C8_ReadmeDefault3000 ==
  \A i \in Instances :
    (PortUnset(i) /\ IsListening(i)) => Owned(i) = {TcpAddr(3000)}

StartupOrder ==
  <<"dotenv.config", "express", "read PORT", "app.get", "bind", "console.log">>

\* C9: the statements a process has run are a prefix of: load the
\* environment, create the app, read PORT, register GET "/", bind, write
\* the startup line (or, in place of the bind, the failed listen).  The
\* startup line is written at most once, only by a process holding a
\* socket, and names the value passed to listen.
C9_StartupOrder ==
  \A i \in Instances :
    /\ \/ events[i] = SubSeq(StartupOrder, 1, Len(events[i]))
       \/ events[i] = SubSeq(StartupOrder, 1, 4) \o <<"listen.error">>
    /\ Len(log[i]) <= 1
    /\ log[i] # <<>> =>
         /\ Owned(i) # {}
         /\ events[i][5] = "bind"
         /\ log[i][1].port = TemplateText(listenArg[i])
    /\ port[i] # Undefined => GreeterRoute \in routes[i] \/ pc[i] = "resolved"
    /\ Owned(i) # {} => routes[i] = {GreeterRoute}

C9_Witness ==
  \E i \in Instances :
    /\ events[i] = StartupOrder
    /\ log[i] = <<[text |-> "Server running on http://localhost:",
                   port |-> <<"4", "0", "0", "0">>]>>
    /\ dotenvFile.hasPort
    /\ handled[i] > 0

\* C10: the port is read once and keeps its value; answering a request
\* changes neither the port, the routes, the environment nor the sockets;
\* and two processes whose last request is the same gave the same
\* response, however many requests each answered before.
C10_RequestsLeaveStateAlone ==
  /\ [][ \A i \in Instances :
           /\ pc[i] \notin {"start", "loaded", "created"} => port'[i] = port[i]
           /\ handled'[i] # handled[i] =>
                /\ port' = port
                /\ routes' = routes
                /\ env' = env
                /\ bound' = bound
                /\ pc' = pc
     ]_vars
  /\ [](\A i, j \in Instances :
          /\ Cardinality({ k \in 1..Len(events[i]) : events[i][k] = "read PORT" }) <= 1
          /\ (handled[i] > 0 /\ handled[j] > 0 /\ lastReq[i] = lastReq[j])
               => resp[i] = resp[j])

C10_Witness ==
  /\ handled[1] = 2
  /\ handled[2] = 1
  /\ lastReq[1] = GetRoot
  /\ lastReq[2] = GetRoot
  /\ resp[1] = resp[2]

=============================================================================
